---------------------------- MODULE Spec2Model ----------------------------
(***************************************************************************)
(* A model of crop_scan.py: the cropping of flatbed scans by detecting the *)
(* edge between the photo and the scanner background.                      *)
(*                                                                         *)
(* Every function of the script is modelled.  Functions without loops of   *)
(* interest to a property are operators; the scanning loops are actions,   *)
(* one per loop iteration, with the function's locals kept in a record     *)
(* (feub, feol, fe, cs, batch) whose field "caller" names the label the    *)
(* function returns to.  A return or a raised exception is left in ret.    *)
(*                                                                         *)
(* Numbers.  The script computes brightness and colour distance as floats  *)
(* (sqrt, then averages).  The model keeps an average as the pair          *)
(* <<sum, points>> and compares by cross-multiplication, and takes Sqrt    *)
(* only of perfect squares: the pixel palettes below are chosen so that    *)
(* every brightness and every colour distance is an integer, for which     *)
(* the script's float arithmetic is exact.                                 *)
(***************************************************************************)
EXTENDS Integers, Sequences, FiniteSets, TLC

VARIABLES
  image,    \* the pixel grid being processed (PIL Image: mode, size, pixels)
  pc,       \* the control position
  input,    \* the arguments of the function a specification applies directly
  ret,      \* the last return value, or the exception raised
  feub,     \* locals of find_edge_using_brightness
  feol,     \* locals of find_edge_of_one_line
  fe,       \* locals of find_edge
  cs,       \* locals of crop_scan_using_brightness / crop_scan
  batch,    \* __main__: the files of the scan directory and the loop position
  written   \* the cropped images saved so far (cropped_image.save)

vars == <<image, pc, input, ret, feub, feol, fe, cs, batch, written>>

Idle == [caller |-> "none"]

(***************************************************************************)
(* Return values and exceptions.                                           *)
(***************************************************************************)
Return(v) == [exc |-> "none", val |-> v]
Raise(e) == [exc |-> e, val |-> <<>>]
NoReturn == [exc |-> "pending", val |-> <<>>]
None == <<>>
Some(v) == <<v>>

Min(a, b) == IF a <= b THEN a ELSE b
Max(a, b) == IF a >= b THEN a ELSE b

(***************************************************************************)
(* Averages: sum / points as the pair <<sum, points>>, points > 0.         *)
(***************************************************************************)
Avg(sum, points) == <<sum, points>>
\* a - b >= t, for averages a and b and an integer t
DiffAtLeast(a, b, t) == a[1] * b[2] - b[1] * a[2] >= t * a[2] * b[2]
\* a < t
AvgBelow(a, t) == a[1] < t * a[2]
AvgEq(a, b) == a[1] * b[2] = b[1] * a[2]

(***************************************************************************)
(* math.sqrt.  Sqrt is the integer part of the root, found by bisection;   *)
(* it is the root itself on the perfect squares, which are all the model   *)
(* takes it of.  SqrtTable tabulates it as a sequence for the arguments    *)
(* of rgb_brightness, which is taken once per pixel of a scanned line:     *)
(* SqrtTable[s + 1] is the root of s.                                      *)
(***************************************************************************)
RECURSIVE SqrtBetween(_, _, _)
SqrtBetween(s, lo, hi) ==
  IF lo = hi
    THEN lo
    ELSE LET mid == (lo + hi + 1) \div 2
         IN IF mid * mid <= s THEN SqrtBetween(s, mid, hi)
                              ELSE SqrtBetween(s, lo, mid - 1)

Sqrt(s) == SqrtBetween(s, 0, 441)
SqrtTable == [i \in 1..(255 * 255 + 1) |-> SqrtBetween(i - 1, 0, 255)] \o <<>>

(***************************************************************************)
(* Pixel grids.  A raster holds its rows explicitly; a synthetic grid is   *)
(* a photo of one colour in the top-left corner, photo[1] wide and         *)
(* photo[2] high, on a background of one colour to its right and below.    *)
(***************************************************************************)
Gray(v) == <<v, v, v>>
Red(v) == <<v, 0, 0>>

Raster(rows) ==
  [mode |-> "RGB", size |-> <<Len(rows[1]), Len(rows)>>, kind |-> "raster",
   rows |-> rows]

Synthetic(mode, size, photo, fg, bg) ==
  [mode |-> mode, size |-> size, kind |-> "synthetic",
   photo |-> photo, fg |-> fg, bg |-> bg]

InGrid(img, point) ==
  /\ 0 <= point[1] /\ point[1] < img.size[1]
  /\ 0 <= point[2] /\ point[2] < img.size[2]

PixelAt(img, point) ==
  IF img.kind = "raster"
    THEN img.rows[point[2] + 1][point[1] + 1]
    ELSE IF point[1] < img.photo[1] /\ point[2] < img.photo[2]
           THEN img.fg ELSE img.bg

\* Image.getpixel: the pixel at a point of the grid, IndexError outside it.
getpixel(img, point) ==
  IF InGrid(img, point)
    THEN [ok |-> TRUE, rgb |-> PixelAt(img, point)]
    ELSE [ok |-> FALSE, rgb |-> <<>>]

(***************************************************************************)
(* Geometry and colour primitives.                                         *)
(***************************************************************************)
\* point_distance squared: sqrt is monotone, so dist < t iff dist^2 < t^2.
point_distance_sq(point0, point1) ==
  (point1[1] - point0[1]) * (point1[1] - point0[1])
  + (point1[2] - point0[2]) * (point1[2] - point0[2])

\* Python 2: the division by 3 is an integer division.
rgb_brightness(pixel) ==
  SqrtTable[(pixel[1] * pixel[1] + pixel[2] * pixel[2] + pixel[3] * pixel[3])
            \div 3 + 1]

rgb_distance(pixel0, pixel1) ==
  Sqrt((pixel1[1] - pixel0[1]) * (pixel1[1] - pixel0[1])
       + (pixel1[2] - pixel0[2]) * (pixel1[2] - pixel0[2])
       + (pixel1[3] - pixel0[3]) * (pixel1[3] - pixel0[3]))

(***************************************************************************)
(* rgb_neighbor_distance                                                   *)
(***************************************************************************)
\* range(1, n+1, 1) if do_after else range(-1, -(n+1), -1)
Deltas(n, do_after) == [i \in 1..n |-> IF do_after THEN i ELSE -i]

\* A plausible slip: the count advances before the lookup that may fail.
neighbor_body_count_first(img, rgb, point, delta, do_x, acc) ==
  LET got == IF do_x THEN getpixel(img, <<point[1] + delta, point[2]>>)
                     ELSE getpixel(img, <<point[1], point[2] + delta>>)
  IN [sum |-> acc.sum + (IF got.ok THEN rgb_distance(rgb, got.rgb) ELSE 0),
      points |-> acc.points + 1]

\* One pass of the body of "for delta in deltas": try / except IndexError.
neighbor_body(img, rgb, point, delta, do_x, acc) ==
  LET got == IF do_x THEN getpixel(img, <<point[1] + delta, point[2]>>)
                     ELSE getpixel(img, <<point[1], point[2] + delta>>)
  IN IF got.ok
       THEN [sum |-> acc.sum + rgb_distance(rgb, got.rgb),
             points |-> acc.points + 1]
       ELSE acc

RECURSIVE neighbor_loop(_, _, _, _, _, _)
neighbor_loop(img, rgb, point, deltas, do_x, acc) ==
  IF deltas = <<>>
    THEN acc
    ELSE neighbor_loop(img, rgb, point, Tail(deltas), do_x,
                       neighbor_body(img, rgb, point, Head(deltas), do_x, acc))

rgb_neighbor_distance(img, point, n, do_x, do_after) ==
  LET first == getpixel(img, point)
  IN IF ~first.ok
       THEN Raise("IndexError")
       ELSE LET acc == neighbor_loop(img, first.rgb, point, Deltas(n, do_after),
                                     do_x, [sum |-> 0, points |-> 0])
            IN Return(IF acc.points > 0 THEN Avg(acc.sum, acc.points)
                                        ELSE Avg(0, 1))

(***************************************************************************)
(* rgb_brightness_of_one_line                                              *)
(***************************************************************************)
\* The running sum of "for position in xrange(lo, hi)", split in halves so
\* that the evaluation depth stays logarithmic in the length of the line.
RECURSIVE brightness_sum(_, _, _, _, _)
brightness_sum(img, line_index, do_x, lo, hi) ==
  IF lo >= hi
    THEN 0
    ELSE IF hi = lo + 1
      THEN rgb_brightness(getpixel(img, IF do_x THEN <<lo, line_index>>
                                                ELSE <<line_index, lo>>).rgb)
      ELSE LET mid == (lo + hi) \div 2
           IN brightness_sum(img, line_index, do_x, lo, mid)
              + brightness_sum(img, line_index, do_x, mid, hi)

rgb_brightness_of_one_line(img, margin, line_index, do_x) ==
  LET stop == (IF do_x THEN img.size[1] ELSE img.size[2]) - margin
      points == Max(stop - margin, 0)
  IN IF points > 0
       THEN Avg(brightness_sum(img, line_index, do_x, margin, stop), points)
       ELSE Avg(0, 1)

(***************************************************************************)
(* find_edge_using_brightness: one action per iteration of its loop.       *)
(***************************************************************************)
CallFeub(margin, do_x, caller) ==
  [margin |-> margin, do_x |-> do_x, line_index |-> None, edge |-> None,
   caller |-> caller]

\* The index the "for line_index in xrange(far, -1, -1)" loop takes next.
FeubNext(f) ==
  IF f.line_index = None
    THEN (IF f.do_x THEN image.size[1] ELSE image.size[2]) - 1
    ELSE f.line_index[1] - 1

\* A plausible slip: <= 240 for < 240.
feub_body_le(f, line_index, brightness) ==
  IF f.edge = None
    THEN [frame |-> [f EXCEPT !.line_index = Some(line_index),
                              !.edge = IF brightness[1] <= 240 * brightness[2]
                                         THEN Some(line_index) ELSE None],
          break |-> FALSE]
    ELSE [frame |-> [f EXCEPT !.line_index = Some(line_index)],
          break |-> line_index < f.edge[1] - 16]

\* The loop body (lines 108-116): the frame after it, and whether it broke.
feub_body(f, line_index, brightness) ==
  IF f.edge = None
    THEN [frame |-> [f EXCEPT !.line_index = Some(line_index),
                              !.edge = IF AvgBelow(brightness, 240)
                                         THEN Some(line_index) ELSE None],
          break |-> FALSE]
    ELSE [frame |-> [f EXCEPT !.line_index = Some(line_index)],
          break |-> line_index < f.edge[1] - 16]

FEUB_Iter ==
  /\ pc = "feub_loop"
  /\ FeubNext(feub) >= 0
  /\ \E brightness \in {rgb_brightness_of_one_line(image, feub.margin,
                                                     FeubNext(feub), ~feub.do_x)} :
       \E after \in {feub_body(feub, FeubNext(feub), brightness)} :
         /\ feub' = after.frame
         /\ pc' = IF after.break THEN "feub_return" ELSE "feub_loop"
  /\ UNCHANGED <<image, input, ret, feol, fe, cs, batch, written>>

FEUB_Exhausted ==
  /\ pc = "feub_loop"
  /\ FeubNext(feub) < 0
  /\ pc' = "feub_return"
  /\ UNCHANGED <<image, input, ret, feub, feol, fe, cs, batch, written>>

\* return line_index (line 118); the grids have size >= 1, so the loop ran
\* and line_index is bound.
feub_result(f) == f.line_index[1]

FEUB_Return ==
  /\ pc = "feub_return"
  /\ ret' = Return(feub_result(feub))
  /\ pc' = feub.caller
  /\ UNCHANGED <<image, input, feub, feol, fe, cs, batch, written>>

(***************************************************************************)
(* find_edge_of_one_line: one action per pixel walked.                     *)
(***************************************************************************)
CallFeol(minimum, line_index, neighbors, threshold, do_x, caller) ==
  [minimum |-> minimum, line_index |-> line_index, neighbors |-> neighbors,
   threshold |-> threshold, do_x |-> do_x, position |-> None,
   passed_threshold |-> FALSE, pre |-> Avg(0, 1), post |-> Avg(0, 1),
   caller |-> caller]

\* The position the "for position in xrange(far, minimum-1, -1)" loop takes
\* next.
FeolNext(f) ==
  IF f.position = None
    THEN (IF f.do_x THEN image.size[1] ELSE image.size[2]) - 1
    ELSE f.position[1] - 1

FeolPoint(f, position) ==
  IF f.do_x THEN <<position, f.line_index>> ELSE <<f.line_index, position>>

\* A plausible slip: the two direction flags exchanged.
pre_after(img, point, neighbors, do_x) ==
  rgb_neighbor_distance(img, point, neighbors, do_x, TRUE).val

\* line 130: pre = rgb_neighbor_distance(image, point, neighbors, do_x, False)
pre(img, point, neighbors, do_x) ==
  rgb_neighbor_distance(img, point, neighbors, do_x, FALSE).val

\* line 131: post = rgb_neighbor_distance(image, point, neighbors, do_x, True)
post(img, point, neighbors, do_x) ==
  rgb_neighbor_distance(img, point, neighbors, do_x, TRUE).val

\* A plausible slip: the confirmation is taken without the phase test.
feol_body_no_phase(f, a, b) ==
  IF DiffAtLeast(b, a, f.threshold)
    THEN [passed_threshold |-> f.passed_threshold, found |-> TRUE]
    ELSE [passed_threshold |->
            f.passed_threshold \/ DiffAtLeast(a, b, f.threshold),
          found |-> FALSE]

\* Lines 133-138: the two phases, for pre = a and post = b.
feol_body(f, a, b) ==
  IF ~f.passed_threshold
    THEN [passed_threshold |-> DiffAtLeast(a, b, f.threshold), found |-> FALSE]
    ELSE [passed_threshold |-> TRUE, found |-> DiffAtLeast(b, a, f.threshold)]

FEOL_Iter ==
  /\ pc = "feol_loop"
  /\ FeolNext(feol) >= feol.minimum
  /\ \E position \in {FeolNext(feol)} :
     \E a \in {pre(image, FeolPoint(feol, position), feol.neighbors, feol.do_x)},
        b \in {post(image, FeolPoint(feol, position), feol.neighbors, feol.do_x)} :
     \E after \in {feol_body(feol, a, b)} :
        /\ feol' = [feol EXCEPT !.position = Some(position),
                                !.pre = a, !.post = b,
                                !.passed_threshold = after.passed_threshold]
        /\ IF after.found
             THEN ret' = Return(Some(position)) /\ pc' = feol.caller
             ELSE UNCHANGED ret /\ pc' = "feol_loop"
  /\ UNCHANGED <<image, input, feub, fe, cs, batch, written>>

\* return None (line 140)
FEOL_Exhausted ==
  /\ pc = "feol_loop"
  /\ FeolNext(feol) < feol.minimum
  /\ ret' = Return(None)
  /\ pc' = feol.caller
  /\ UNCHANGED <<image, input, feub, feol, fe, cs, batch, written>>

(***************************************************************************)
(* find_edge: one action per probed line, around the call of               *)
(* find_edge_of_one_line.                                                  *)
(***************************************************************************)
EmptyCounter == [e \in {} |-> 0]

CallFe(minimum, margin, neighbors, threshold, do_x, caller) ==
  [minimum |-> minimum, margin |-> margin, neighbors |-> neighbors,
   threshold |-> threshold, do_x |-> do_x, line_index |-> None,
   edge |-> -1, edge_frequency |-> EmptyCounter, caller |-> caller]

\* xrange(margin, size - margin, neighbors / 2)
FeNext(f) ==
  IF f.line_index = None THEN f.margin
                         ELSE f.line_index[1] + f.neighbors \div 2

FeStop(f) == (IF f.do_x THEN image.size[2] ELSE image.size[1]) - f.margin

\* line 156: the next probed line is handed to find_edge_of_one_line
FE_Iter ==
  /\ pc = "fe_loop"
  /\ FeNext(fe) < FeStop(fe)
  /\ fe' = [fe EXCEPT !.line_index = Some(FeNext(fe))]
  /\ feol' = CallFeol(fe.minimum, FeNext(fe), fe.neighbors, fe.threshold,
                      fe.do_x, "fe_157")
  /\ pc' = "feol_loop"
  /\ UNCHANGED <<image, input, ret, feub, cs, batch, written>>

\* lines 157-161: e is counted, and the maximum kept
FE_Record ==
  /\ pc = "fe_157"
  /\ LET e == ret.val
     IN fe' = IF e = None
                THEN fe
                ELSE [fe EXCEPT
                        !.edge_frequency =
                          IF e[1] \in DOMAIN @
                            THEN [@ EXCEPT ![e[1]] = @ + 1]
                            ELSE @ @@ (e[1] :> 1),
                        !.edge = IF e[1] > @ THEN e[1] ELSE @]
  /\ pc' = "fe_loop"
  /\ UNCHANGED <<image, input, ret, feub, feol, cs, batch, written>>

FE_Exhausted ==
  /\ pc = "fe_loop"
  /\ FeNext(fe) >= FeStop(fe)
  /\ pc' = "fe_return"
  /\ UNCHANGED <<image, input, ret, feub, feol, fe, cs, batch, written>>

\* Counter.most_common(1): the entries with the highest count; which of
\* several the Counter yields first is left open.
most_common(counter) ==
  {e \in DOMAIN counter : \A o \in DOMAIN counter : counter[o] <= counter[e]}

\* line 163: most_common(1)[0] of an empty Counter is [][0], an IndexError
FE_Return ==
  /\ pc = "fe_return"
  /\ IF most_common(fe.edge_frequency) = {}
       THEN ret' = Raise("IndexError")
       ELSE \E mode \in most_common(fe.edge_frequency) :
              ret' = Return(<<IF fe.edge >= 0 THEN fe.edge ELSE -1, mode>>)
  /\ pc' = fe.caller
  /\ UNCHANGED <<image, input, feub, feol, fe, cs, batch, written>>

(***************************************************************************)
(* maybe_conform_crop                                                      *)
(***************************************************************************)
preferred_crops == << <<1770, 1180>>, <<1180, 1770>> >>

MINIMUM_DIMENSION == 480
EDGE_SEARCH_MARGIN == 20
EDGE_RGB_DISTANCE_NEIGHBORS == 8
EDGE_RGB_DISTANCE_THRESHOLD == 75
CONFORM_POINT_DISTANCE_THRESHOLD == 16

\* A plausible slip: <= for <.
maybe_conform_crop_le(crop_point) ==
  LET near == {i \in 1..Len(preferred_crops) :
                 point_distance_sq(preferred_crops[i], crop_point)
                   <= CONFORM_POINT_DISTANCE_THRESHOLD
                        * CONFORM_POINT_DISTANCE_THRESHOLD}
  IN IF near = {} THEN crop_point
                  ELSE preferred_crops[CHOOSE i \in near : \A j \in near : i <= j]

\* lines 170-176: the first crop of the list within the threshold, else the
\* point itself.
RECURSIVE conform_loop(_, _)
conform_loop(crops, crop_point) ==
  IF crops = <<>>
    THEN crop_point
    ELSE IF point_distance_sq(Head(crops), crop_point)
              < CONFORM_POINT_DISTANCE_THRESHOLD * CONFORM_POINT_DISTANCE_THRESHOLD
           THEN Head(crops)
           ELSE conform_loop(Tail(crops), crop_point)

maybe_conform_crop(crop_point) == conform_loop(preferred_crops, crop_point)

(***************************************************************************)
(* crop_scan_using_brightness                                              *)
(***************************************************************************)
CallCs(image_path, caller) ==
  [image_path |-> image_path, edge_x |-> None, edge_y |-> None,
   mode_x |-> None, mode_y |-> None, caller |-> caller]

\* cropped_image.save(cropped_path): suffix is "" or "-mode"
Saved(image_path, suffix, crop) ==
  [image_path |-> image_path, suffix |-> suffix, crop |-> crop]

\* A plausible slip: a bad mode skips the image instead of ending the run.
CSB_Open_skip ==
  /\ pc = "csb_open"
  /\ image' = batch.files[cs.image_path]
  /\ IF image'.mode # "RGB"
       THEN /\ pc' = cs.caller
            /\ UNCHANGED feub
       ELSE /\ feub' = CallFeub(EDGE_SEARCH_MARGIN, TRUE, "csb_196")
            /\ pc' = "feub_loop"
  /\ UNCHANGED <<input, ret, feol, fe, cs, batch, written>>

\* lines 189-196: open, the mode test and exit(1), the call for the x edge
CSB_Open ==
  /\ pc = "csb_open"
  /\ image' = batch.files[cs.image_path]
  /\ IF image'.mode # "RGB"
       THEN /\ pc' = "exit1"
            /\ UNCHANGED feub
       ELSE /\ feub' = CallFeub(EDGE_SEARCH_MARGIN, TRUE, "csb_196")
            /\ pc' = "feub_loop"
  /\ UNCHANGED <<input, ret, feol, fe, cs, batch, written>>

\* lines 196-197: edge_x is bound, the call for the y edge
CSB_EdgeX ==
  /\ pc = "csb_196"
  /\ cs' = [cs EXCEPT !.edge_x = Some(ret.val)]
  /\ feub' = CallFeub(EDGE_SEARCH_MARGIN, FALSE, "csb_197")
  /\ pc' = "feub_loop"
  /\ UNCHANGED <<image, input, ret, feol, fe, batch, written>>

\* lines 197-206: edge_y is bound, the crop is conformed and saved
CSB_EdgeY ==
  /\ pc = "csb_197"
  /\ cs' = [cs EXCEPT !.edge_y = Some(ret.val)]
  /\ written' = Append(written,
                       Saved(cs.image_path, "",
                             maybe_conform_crop(<<cs.edge_x[1], ret.val>>)))
  /\ pc' = cs.caller
  /\ UNCHANGED <<image, input, ret, feub, feol, fe, batch>>

(***************************************************************************)
(* crop_scan                                                               *)
(***************************************************************************)
CallFeOf(do_x, caller) ==
  CallFe(MINIMUM_DIMENSION, EDGE_SEARCH_MARGIN, EDGE_RGB_DISTANCE_NEIGHBORS,
         EDGE_RGB_DISTANCE_THRESHOLD, do_x, caller)

\* lines 213-220
CS_Open ==
  /\ pc = "cs_open"
  /\ image' = batch.files[cs.image_path]
  /\ IF image'.mode # "RGB"
       THEN /\ pc' = "exit1"
            /\ UNCHANGED fe
       ELSE /\ fe' = CallFeOf(TRUE, "cs_220")
            /\ pc' = "fe_loop"
  /\ UNCHANGED <<input, ret, feub, feol, cs, batch, written>>

\* lines 220-221: an exception of find_edge is not caught and ends the run
CS_EdgeX ==
  /\ pc = "cs_220"
  /\ IF ret.exc # "none"
       THEN /\ pc' = "raised"
            /\ UNCHANGED <<cs, fe>>
       ELSE /\ cs' = [cs EXCEPT !.edge_x = Some(ret.val[1]),
                                !.mode_x = Some(ret.val[2])]
            /\ fe' = CallFeOf(FALSE, "cs_221")
            /\ pc' = "fe_loop"
  /\ UNCHANGED <<image, input, ret, feub, feol, batch, written>>

\* lines 221-240: the crop by the maxima is saved, then the crop by the modes
CS_EdgeY ==
  /\ pc = "cs_221"
  /\ IF ret.exc # "none"
       THEN /\ pc' = "raised"
            /\ UNCHANGED <<cs, written>>
       ELSE /\ cs' = [cs EXCEPT !.edge_y = Some(ret.val[1]),
                                !.mode_y = Some(ret.val[2])]
            /\ written' =
                 written
                 \o << Saved(cs.image_path, "",
                             maybe_conform_crop(<<cs.edge_x[1], ret.val[1]>>)),
                       Saved(cs.image_path, "-mode",
                             maybe_conform_crop(<<cs.mode_x[1], ret.val[2]>>)) >>
            /\ pc' = cs.caller
  /\ UNCHANGED <<image, input, ret, feub, feol, fe, batch>>

(***************************************************************************)
(* __main__ (lines 266-274)                                                *)
(***************************************************************************)
\* -i: one image
Main_Image ==
  /\ pc = "main_268"
  /\ cs' = CallCs(1, "exit0")
  /\ pc' = "csb_open"
  /\ UNCHANGED <<image, input, ret, feub, feol, fe, batch, written>>

\* -s: the next file of the scan directory
Main_Loop ==
  /\ pc = "main_273"
  /\ batch.next <= Len(batch.files)
  /\ cs' = CallCs(batch.next, "main_273")
  /\ batch' = [batch EXCEPT !.next = @ + 1]
  /\ pc' = "csb_open"
  /\ UNCHANGED <<image, input, ret, feub, feol, fe, written>>

Main_End ==
  /\ pc = "main_273"
  /\ batch.next > Len(batch.files)
  /\ pc' = "exit0"
  /\ UNCHANGED <<image, input, ret, feub, feol, fe, cs, batch, written>>

(***************************************************************************)
(* The inputs of the specifications.                                       *)
(***************************************************************************)
MaxDim == 20        \* the longer side of a grid of the brightness scans
MinorDim == 2       \* its shorter side
MaxMargin == 1      \* the skip margin of the brightness scans
MaxLong == 3        \* the longer side of a raster of the neighbour distance
MaxShort == 1       \* its shorter side
MaxNeighbors == 2   \* the neighbour count n
MaxLine == 5        \* the length of a line of the one-line walk
ConformReach == 17  \* how far around a preferred crop the candidates lie
MaxFiles == 3       \* the files of a scan directory

NoImage == Synthetic("none", <<0, 0>>, <<0, 0>>, Gray(0), Gray(0))
NoInput == [none |-> TRUE]

Sizes(long, short) ==
  {<<w, h>> : w \in 1..long, h \in 1..short}
  \cup {<<w, h>> : w \in 1..short, h \in 1..long}

Rasters(size, palette) ==
  {Raster(rows) : rows \in [1..size[2] -> [1..size[1] -> palette]]}

Points(img) == (0..img.size[1] - 1) \X (0..img.size[2] - 1)

\* Grays: the brightness of Gray(v) is v.  <<photo, background>>
BrightnessLevels == {<<0, 255>>, <<255, 0>>, <<239, 255>>, <<240, 255>>}

\* Reds: the colour distance of Red(u) and Red(v) is |u - v|.
NeighborGrids ==
  UNION {Rasters(size, {Red(0), Red(90)}) : size \in Sizes(MaxLong, MaxShort)}

LineGrids ==
  UNION {Rasters(size, {Red(0), Red(45), Red(135)}) : size \in Sizes(MaxLine, 1)}
Thresholds == {EDGE_RGB_DISTANCE_THRESHOLD, 90}

ConformPoints ==
  {<<preferred_crops[i][1] + dx, preferred_crops[i][2] + dy>> :
     i \in 1..Len(preferred_crops),
     dx \in -ConformReach..ConformReach, dy \in -ConformReach..ConformReach}
  \cup {<<0, 0>>, <<1475, 1475>>, <<2000, 1500>>}

\* The end-to-end scan: 2000 x 1500, white from x = 1770 and from y = 1180.
EndToEndScans ==
  {Synthetic("RGB", <<2000, 1500>>, <<1770, 1180>>, Gray(f), Gray(255)) :
     f \in {0, 200}}

DirectoryFiles ==
  {Synthetic("RGB", <<4, 3>>, <<2, 2>>, Gray(0), Gray(255)),
   Synthetic("RGB", <<45, 42>>, <<30, 30>>, Gray(0), Gray(255)),
   Synthetic("L", <<4, 3>>, <<2, 2>>, Gray(0), Gray(255)),
   Synthetic("RGBA", <<4, 3>>, <<2, 2>>, Gray(0), Gray(255))}

Directories == UNION {[1..n -> DirectoryFiles] : n \in 0..MaxFiles}

\* Scans for crop_scan: a photo Red(0) on Red(255), or the reverse.
CropScans ==
  {Synthetic(mode, sp[1], sp[2], Red(c[1]), Red(c[2])) :
     mode \in {"RGB"},
     sp \in {<< <<1760, 1200>>, <<1757, 1180>> >>,
             << <<1800, 1200>>, <<1770, 1180>> >>,
             << <<600, 500>>, <<590, 490>> >>,
             << <<500, 484>>, <<490, 484>> >>,
             << <<484, 484>>, <<484, 484>> >>},
     c \in {<<0, 255>>, <<255, 0>>}}
  \cup {Synthetic("L", <<484, 484>>, <<484, 484>>, Red(0), Red(0))}

(***************************************************************************)
(* Spec: __main__ with crop_scan_using_brightness.                         *)
(***************************************************************************)
Init ==
  /\ image = NoImage
  /\ input = NoInput
  /\ ret = NoReturn
  /\ feub = Idle /\ feol = Idle /\ fe = Idle /\ cs = Idle
  /\ written = <<>>
  /\ \/ /\ pc = "main_268"
        /\ \E img \in EndToEndScans \cup DirectoryFiles :
             batch = [files |-> <<img>>, next |-> 1]
     \/ /\ pc = "main_273"
        /\ \E files \in Directories : batch = [files |-> files, next |-> 1]

Next ==
  \/ Main_Image \/ Main_Loop \/ Main_End
  \/ CSB_Open \/ CSB_EdgeX \/ CSB_EdgeY
  \/ FEUB_Iter \/ FEUB_Exhausted \/ FEUB_Return

Spec == Init /\ [][Next]_vars

(***************************************************************************)
(* SpecBrightness: find_edge_using_brightness on a grid, a margin, an axis.*)
(***************************************************************************)
InitBrightness ==
  /\ \E size \in Sizes(MaxDim, MinorDim), level \in BrightnessLevels :
       \E cw \in 0..size[1], ch \in 0..size[2] :
         image = Synthetic("RGB", size, <<cw, ch>>,
                           Gray(level[1]), Gray(level[2]))
  /\ input = NoInput
  /\ ret = NoReturn
  /\ \E margin \in 0..MaxMargin, do_x \in BOOLEAN :
       feub = CallFeub(margin, do_x, "done")
  /\ feol = Idle /\ fe = Idle /\ cs = Idle
  /\ batch = [files |-> <<>>, next |-> 1]
  /\ written = <<>>
  /\ pc = "feub_loop"

NextBrightness == FEUB_Iter \/ FEUB_Exhausted \/ FEUB_Return

SpecBrightness == InitBrightness /\ [][NextBrightness]_vars

(***************************************************************************)
(* SpecLine: find_edge_of_one_line on one line of a raster.                *)
(***************************************************************************)
InitLine ==
  /\ image \in LineGrids
  /\ input = NoInput
  /\ ret = NoReturn
  /\ \E do_x \in BOOLEAN, minimum \in 0..MaxLine, neighbors \in 1..MaxNeighbors,
        threshold \in Thresholds :
       /\ (IF do_x THEN image.size[2] ELSE image.size[1]) = 1
       /\ minimum <= (IF do_x THEN image.size[1] ELSE image.size[2])
       /\ feol = CallFeol(minimum, 0, neighbors, threshold, do_x, "done")
  /\ feub = Idle /\ fe = Idle /\ cs = Idle
  /\ batch = [files |-> <<>>, next |-> 1]
  /\ written = <<>>
  /\ pc = "feol_loop"

NextLine == FEOL_Iter \/ FEOL_Exhausted

SpecLine == InitLine /\ [][NextLine]_vars

(***************************************************************************)
(* SpecCropScan: crop_scan on one scan.                                    *)
(***************************************************************************)
InitCropScan ==
  /\ image = NoImage
  /\ input = NoInput
  /\ ret = NoReturn
  /\ feub = Idle /\ feol = Idle /\ fe = Idle
  /\ cs = CallCs(1, "done")
  /\ \E img \in CropScans : batch = [files |-> <<img>>, next |-> 1]
  /\ written = <<>>
  /\ pc = "cs_open"

NextCropScan ==
  \/ CS_Open \/ CS_EdgeX \/ CS_EdgeY
  \/ FE_Iter \/ FE_Record \/ FE_Exhausted \/ FE_Return
  \/ FEOL_Iter \/ FEOL_Exhausted

SpecCropScan == InitCropScan /\ [][NextCropScan]_vars

(***************************************************************************)
(* SpecNeighbor and SpecConform: the pure functions, applied to inputs.    *)
(***************************************************************************)
Apply_rgb_neighbor_distance ==
  /\ pc = "call_rgb_neighbor_distance"
  /\ ret' = rgb_neighbor_distance(image, input.point, input.n, input.do_x,
                                  input.do_after)
  /\ pc' = "done"
  /\ UNCHANGED <<image, input, feub, feol, fe, cs, batch, written>>

InitNeighbor ==
  /\ image \in NeighborGrids
  /\ \E point \in Points(image), n \in 1..MaxNeighbors,
        do_x \in BOOLEAN, do_after \in BOOLEAN :
       input = [point |-> point, n |-> n, do_x |-> do_x, do_after |-> do_after]
  /\ ret = NoReturn
  /\ feub = Idle /\ feol = Idle /\ fe = Idle /\ cs = Idle
  /\ batch = [files |-> <<>>, next |-> 1]
  /\ written = <<>>
  /\ pc = "call_rgb_neighbor_distance"

SpecNeighbor == InitNeighbor /\ [][Apply_rgb_neighbor_distance]_vars

Apply_maybe_conform_crop ==
  /\ pc = "call_maybe_conform_crop"
  /\ ret' = Return(maybe_conform_crop(input.crop_point))
  /\ pc' = "done"
  /\ UNCHANGED <<image, input, feub, feol, fe, cs, batch, written>>

InitConform ==
  /\ image = NoImage
  /\ \E crop_point \in ConformPoints : input = [crop_point |-> crop_point]
  /\ ret = NoReturn
  /\ feub = Idle /\ feol = Idle /\ fe = Idle /\ cs = Idle
  /\ batch = [files |-> <<>>, next |-> 1]
  /\ written = <<>>
  /\ pc = "call_maybe_conform_crop"

SpecConform == InitConform /\ [][Apply_maybe_conform_crop]_vars

(***************************************************************************)
(* What the properties speak of.                                           *)
(***************************************************************************)
SetMax(S) == CHOOSE m \in S : \A o \in S : o <= m
SetMin(S) == CHOOSE m \in S : \A o \in S : m <= o

\* The grid's last index along the axis.
Far(img, do_x) == (IF do_x THEN img.size[1] ELSE img.size[2]) - 1

Coordinate(point, do_x) == IF do_x THEN point[1] ELSE point[2]

Shifted(point, do_x, d) ==
  IF do_x THEN <<point[1] + d, point[2]>> ELSE <<point[1], point[2] + d>>

\* k: the grid pixels between a point and the grid's boundary on one side.
Available(img, point, do_x, do_after) ==
  IF do_after THEN Far(img, do_x) - Coordinate(point, do_x)
              ELSE Coordinate(point, do_x)

\* The colour distances of a point to its m nearest pixels on one side, summed.
RECURSIVE SideSum(_, _, _, _, _)
SideSum(img, point, do_x, do_after, m) ==
  IF m = 0
    THEN 0
    ELSE rgb_distance(PixelAt(img, point),
                      PixelAt(img, Shifted(point, do_x,
                                           IF do_after THEN m ELSE -m)))
         + SideSum(img, point, do_x, do_after, m - 1)

\* The average over the min(n, k) pixels of one side, 0 when there is none.
SideAverage(img, point, n, do_x, do_after) ==
  LET m == Min(n, Available(img, point, do_x, do_after))
  IN IF m = 0 THEN Avg(0, 1)
              ELSE Avg(SideSum(img, point, do_x, do_after, m), m)

(***************************************************************************)
(* C7                                                                      *)
(***************************************************************************)
\* C7: for an in-grid point, rgb_neighbor_distance raises nothing; it
\* averages exactly the min(n, k) neighbours inside the grid on the asked
\* side, k being the grid pixels between the point and that boundary, and
\* returns 0 when k = 0.
C7_NeighborAverage ==
  pc = "done" =>
    /\ ret.exc = "none"
    /\ LET m == Min(input.n, Available(image, input.point, input.do_x,
                                       input.do_after))
       IN IF m = 0
            THEN ret.val[1] = 0
            ELSE /\ ret.val[2] = m
                 /\ ret.val[1] = SideSum(image, input.point, input.do_x,
                                         input.do_after, m)

\* C7, its case: fewer than n neighbours lie inside the grid, at least one
\* does, and their average is not 0.
C7_Witness ==
  /\ pc = "done"
  /\ Available(image, input.point, input.do_x, input.do_after) > 0
  /\ Available(image, input.point, input.do_x, input.do_after) < input.n
  /\ ret.exc = "none"
  /\ ret.val[1] > 0

(***************************************************************************)
(* C9 and C10                                                              *)
(***************************************************************************)
Walked == feol.minimum..Far(image, feol.do_x)

\* pre - post >= T at position p of the walked line
StartAt(p) ==
  DiffAtLeast(pre(image, FeolPoint(feol, p), feol.neighbors, feol.do_x),
              post(image, FeolPoint(feol, p), feol.neighbors, feol.do_x),
              feol.threshold)

\* post - pre >= T at position p of the walked line
ConfirmAt(p) ==
  DiffAtLeast(post(image, FeolPoint(feol, p), feol.neighbors, feol.do_x),
              pre(image, FeolPoint(feol, p), feol.neighbors, feol.do_x),
              feol.threshold)

Starts == {p \in Walked : StartAt(p)}

\* The first pixel with post - pre >= T after the first with pre - post >= T.
ExpectedEdge ==
  IF Starts = {}
    THEN None
    ELSE LET confirms == {p \in Walked : p < SetMax(Starts) /\ ConfirmAt(p)}
         IN IF confirms = {} THEN None ELSE Some(SetMax(confirms))

\* C9: find_edge_of_one_line returns p exactly when p is the first walked
\* pixel with post - pre >= T strictly after the first walked pixel with
\* pre - post >= T, and no edge when the walk reaches the floor without one;
\* a returned p satisfies minimum <= p < far index.
C9_TwoPhaseWalk ==
  pc = "done" =>
    /\ ret = Return(ExpectedEdge)
    /\ ret.val # None =>
         feol.minimum <= ret.val[1] /\ ret.val[1] < Far(image, feol.do_x)

\* C9, its case: an edge is returned although a pixel walked before the
\* start already had post - pre >= T, which was ignored.
C9_Witness ==
  /\ pc = "done"
  /\ ret.val # None
  /\ \E q \in Walked : q > SetMax(Starts) /\ ConfirmAt(q)

\* C10 as amended: at every pixel walked, pre is the average colour distance
\* to the N neighbours of lower index (the near side, not yet visited) and
\* post the average to the N neighbours of higher index (the far side).
C10_PreLowerPostHigher ==
  feol.position # None =>
    LET point == FeolPoint(feol, feol.position[1])
    IN /\ AvgEq(feol.pre, SideAverage(image, point, feol.neighbors,
                                       feol.do_x, FALSE))
       /\ AvgEq(feol.post, SideAverage(image, point, feol.neighbors,
                                        feol.do_x, TRUE))

\* C10 as stated: pre is the average to the N neighbours of higher index
\* (the far side) and post the average to those of lower index.
C10_PreFarPostNear ==
  feol.position # None =>
    LET point == FeolPoint(feol, feol.position[1])
    IN /\ AvgEq(feol.pre, SideAverage(image, point, feol.neighbors,
                                       feol.do_x, TRUE))
       /\ AvgEq(feol.post, SideAverage(image, point, feol.neighbors,
                                        feol.do_x, FALSE))

\* C10, its case: a walked pixel with neighbours on both sides whose two
\* averages differ.
C10_Witness ==
  /\ feol.position # None
  /\ feol.pre[1] > 0
  /\ feol.post[1] > 0
  /\ ~AvgEq(feol.pre, feol.post)

(***************************************************************************)
(* C5                                                                      *)
(***************************************************************************)
PreferredSet == {preferred_crops[i] : i \in 1..Len(preferred_crops)}

Nearest(point) ==
  CHOOSE c \in PreferredSet :
    \A o \in PreferredSet :
      point_distance_sq(c, point) <= point_distance_sq(o, point)

\* C5: maybe_conform_crop returns the nearest preferred size when its
\* distance to the candidate is strictly below 16 (dx^2 + dy^2 < 256), and
\* the candidate unchanged otherwise.
C5_NearestWithinTolerance ==
  pc = "done" =>
    ret.val = IF point_distance_sq(Nearest(input.crop_point), input.crop_point)
                   < 256
                THEN Nearest(input.crop_point)
                ELSE input.crop_point

\* C5, its case: a candidate off a preferred size is moved onto it.
C5_Witness ==
  /\ pc = "done"
  /\ ret.val # input.crop_point
  /\ ret.val \in PreferredSet

(***************************************************************************)
(* C1 and C3                                                               *)
(***************************************************************************)
\* The lines along the scanned axis whose average brightness is below 240.
DarkLines ==
  {i \in 0..Far(image, feub.do_x) :
     AvgBelow(rgb_brightness_of_one_line(image, feub.margin, i, ~feub.do_x),
              240)}

AllBright(img) == \A p \in Points(img) : rgb_brightness(PixelAt(img, p)) >= 240

\* The margin leaves at least one pixel of each scanned line.
LinesNotEmpty ==
  2 * feub.margin < (IF feub.do_x THEN image.size[2] ELSE image.size[1])

\* C1: find_edge_using_brightness returns the index of the first line,
\* walking inward from the far boundary, whose average brightness is below
\* 240.
C1_ReturnsFirstDarkLine ==
  (pc = "done" /\ DarkLines # {}) => ret.val = SetMax(DarkLines)

\* C3 as stated: on a grid whose every pixel has brightness >= 240,
\* find_edge_using_brightness returns 0, for every margin and either axis.
C3_AllBrightReturnsZero ==
  (pc = "done" /\ AllBright(image)) => ret.val = 0

\* C3 as amended: on a grid whose every pixel has brightness >= 240,
\* find_edge_using_brightness returns 0 for either axis and every margin
\* that leaves at least one pixel of each scanned line.
C3_AllBrightNotEmptyReturnsZero ==
  (pc = "done" /\ AllBright(image) /\ LinesNotEmpty) => ret.val = 0

\* C3, its case: an all-bright grid of more than 18 lines, scanned with a
\* margin that leaves pixels, gives 0.
C3_Witness ==
  /\ pc = "done"
  /\ AllBright(image)
  /\ LinesNotEmpty
  /\ Far(image, feub.do_x) >= 18
  /\ ret.val = 0

(***************************************************************************)
(* C2 and C8                                                               *)
(***************************************************************************)
\* C2: the 2000 x 1500 scan that is white from x = 1770 and from y = 1180,
\* with darker content elsewhere, is cropped to exactly (1770, 1180).
C2_EndToEndCrop ==
  \A i \in 1..Len(written) :
    batch.files[written[i].image_path] \in EndToEndScans
      => written[i].crop = <<1770, 1180>>

\* The first file whose mode is not RGB (past the end when there is none).
FirstBad ==
  SetMin({i \in 1..Len(batch.files) : batch.files[i].mode # "RGB"}
         \cup {Len(batch.files) + 1})

\* C8: the first image whose mode is not RGB halts the whole run: no edge
\* detection is performed and nothing is written for it or for any later
\* image, and what was written for the earlier images remains.
C8_BadModeHaltsBatch ==
  /\ \A i \in 1..Len(written) : written[i].image_path < FirstBad
  /\ pc \in {"feub_loop", "feub_return", "csb_196", "csb_197"}
       => cs.image_path < FirstBad
  /\ pc = "exit1" =>
       /\ cs.image_path = FirstBad
       /\ Len(written) = FirstBad - 1
       /\ \A i \in 1..Len(written) : written[i].image_path = i
  /\ FirstBad <= Len(batch.files) => pc # "exit0"

\* C8, its case: the run has halted on a bad image after writing an earlier
\* one, with a later file left unprocessed.
C8_Witness ==
  /\ pc = "exit1"
  /\ Len(written) >= 1
  /\ FirstBad < Len(batch.files)

(***************************************************************************)
(* C4 and C6                                                               *)
(***************************************************************************)
\* C4: every crop rectangle handed to the crop step satisfies
\* 0 <= width <= W and 0 <= height <= H for the grid being cropped.
C4_CropWithinGrid ==
  \A i \in 1..Len(written) :
    LET size == batch.files[written[i].image_path].size
        crop == written[i].crop
    IN /\ 0 <= crop[1] /\ crop[1] <= size[1]
       /\ 0 <= crop[2] /\ crop[2] <= size[2]

\* C6: when no probed line produced a detection, find_edge returns to its
\* caller a pair whose maximum component is -1.
C6_NoDetectionReturnsSentinel ==
  (pc \in {"cs_220", "cs_221"} /\ DOMAIN fe.edge_frequency = {})
    => (ret.exc = "none" /\ ret.val[1] = -1)

=============================================================================
